---- MODULE Spec2Model ----
(***************************************************************************)
(* Model of the chat front end: the ChatProvider state (message lists per  *)
(* chat type, sessions, current session, loading flag), the sidebar Chat   *)
(* page that drives it, and the axios instance with its request and        *)
(* response interceptors.  Every handler is one action: a JavaScript       *)
(* continuation runs to completion and React batches its state updates.    *)
(* A network call is split in the action that issues the request and the   *)
(* actions that deliver its response.  The provider's `messages` state is  *)
(* written by the handlers and read by no page; it is left out.            *)
(***************************************************************************)
EXTENDS Integers, Sequences, FiniteSets, Bags, TLC

\* ---------------------------------------------------------------- bounds
\* number of timestamps handed out by new Date(): bounds the sends
MaxClock == 2
\* number of requests other than the chat request that may be in flight
MaxPending == 2

\* ------------------------------------------------------------ value sets
ChatTypes == {"general", "custom"}
Contents == {"hi"}
Replies == {"ok"}
Tokens == {"tokA"}
\* HTTP status of a failed response; "none" is an error without response
Statuses == {"401", "500", "none"}

\* localStorage.getItem of an absent key
NoItem == "null"

\* ChatSession (types: id, chat_type)
Session(id, t) == [id |-> id, chat_type |-> t]
\* currentSession === null
NullSession == [id |-> 0, chat_type |-> "null"]
S1 == Session(1, "general")
S2 == Session(2, "custom")
\* what GET /chat/sessions may answer
SessionLists == {<< >>, <<S1>>, <<S1, S2>>}
\* response.sessionId of a chat response; 0 stands for an absent (falsy) one
ResponseSessionIds == {0, 1, 2}

\* ChatMessage (types: role, content, timestamp)
Message(role, content, ts) == [role |-> role, content |-> content, ts |-> ts]
\* what GET /chat/sessions/:id/messages may answer
ServerMessages ==
  {<< >>, <<Message("user", "q", 0), Message("assistant", "a", 0)>>}

VARIABLES
  generalMessages,  \* ChatProvider: generalMessages
  ragMessages,      \* ChatProvider: ragMessages
  sessions,         \* ChatProvider: sessions
  currentSession,   \* ChatProvider: currentSession
  loading,          \* ChatProvider: loading
  chatType,         \* Chat page: chatType
  showDeleteModal,  \* Chat page: showDeleteModal
  sessionToDelete,  \* Chat page: sessionToDelete
  localStorage,     \* browser: the items 'token' and 'user'
  location,         \* browser: window.location.href
  page,             \* the document that is loaded: "chat", or "login" after the redirect
  now,              \* the clock read by new Date()
  sendReq,          \* the chat request in flight with the closure of its sendMessage call
  pending,          \* bag of the other requests in flight
  lastEvent,        \* history: the handler that ran last and what it was given
  intervened,       \* history: handlers that touched the lists since the chat request was issued
  convSid,          \* history: sessionId of the last successful chat response of the conversation
  switchedTo        \* history: the type of the last handleChatTypeChange, "none" once another page handler ran

vars == <<generalMessages, ragMessages, sessions, currentSession,
          loading, chatType, showDeleteModal, sessionToDelete, localStorage,
          location, page, now, sendReq, pending, lastEvent, intervened, convSid,
          switchedTo>>

provider == <<generalMessages, ragMessages, sessions, currentSession, loading>>
pageState == <<chatType, showDeleteModal, sessionToDelete>>
browser == <<localStorage, location, page>>

\* ------------------------------------------------------------ api (axios)
\* the Authorization header; << >> is a request without the header
Bearer(tok) == <<"Bearer", tok>>

requestInterceptor_Always(token) == Bearer(token)

\* api.interceptors.request: the header is set iff a token is stored
requestInterceptor(token) ==
  IF token # NoItem THEN Bearer(token) ELSE << >>

responseErrorInterceptor_KeepsUser(status, ls, loc) ==
  IF status = "401"
    THEN [ls |-> [ls EXCEPT !.token = NoItem], loc |-> "/login",
          rejected |-> TRUE, error |-> status]
    ELSE [ls |-> ls, loc |-> loc, rejected |-> TRUE, error |-> status]

\* api.interceptors.response, error branch: on 401 both items are removed
\* and the location is set; the error is rejected in every case
responseErrorInterceptor(status, ls, loc) ==
  IF status = "401"
    THEN [ls |-> [token |-> NoItem, user |-> NoItem], loc |-> "/login",
          rejected |-> TRUE, error |-> status]
    ELSE [ls |-> ls, loc |-> loc, rejected |-> TRUE, error |-> status]

\* a request as it leaves the axios instance; tok records the stored token
\* at that moment
Request(kind, sid, t, cur) ==
  [kind |-> kind, sid |-> sid, chatType |-> t, cur |-> cur,
   auth |-> requestInterceptor(localStorage.token), tok |-> localStorage.token]

Room(n) == BagCardinality(pending) + n <= MaxPending
Issue(bag, r) == bag (+) SetToBag({r})
Take(bag, r) == bag (-) SetToBag({r})

\* chatService.getSessions as issued by loadSessions
GetSessionsReq == Request("getSessions", 0, "null", FALSE)
\* chatService.getSessionMessages(sessionId) with the chatType that
\* loadSessionMessages was given
GetSessionMessagesReq(sessionId, t) == Request("getSessionMessages", sessionId, t, FALSE)
\* chatService.deleteSession(sessionId): an HTTP call like the others, which
\* is fulfilled or rejected; isCurrent is what the closure of deleteSession
\* will find when it resumes
DeleteSessionReq(sessionId, isCurrent) == Request("deleteSession", sessionId, "null", isCurrent)

\* ------------------------------------------------------------ ChatContext
toString(n) == CASE n = 1 -> "1" [] n = 2 -> "2" [] OTHER -> "0"
Undefined == "undefined"

\* currentSession?.id?.toString()
requestSessionId(cs) == IF cs = NullSession THEN Undefined ELSE toString(cs.id)

\* chatType === 'general'
targetIsGeneral_Always(t) == TRUE
targetIsGeneral(t) == t = "general"

\* getMessagesForChatType
getMessagesForChatType(t) == IF t = "general" THEN generalMessages ELSE ragMessages

\* setGeneralMessages / setRagMessages chosen by the chat type
SetMessagesFor(t, new) ==
  IF targetIsGeneral(t)
    THEN generalMessages' = new /\ UNCHANGED ragMessages
    ELSE ragMessages' = new /\ UNCHANGED generalMessages
ListFor(t) == IF targetIsGeneral(t) THEN generalMessages ELSE ragMessages

optimisticAppend_Deferred(prev, userMessage) == prev
\* prev => [...prev, userMessage]
optimisticAppend(prev, userMessage) == Append(prev, userMessage)
\* prev => [...prev, assistantMessage]
appendAssistant(prev, assistantMessage) == Append(prev, assistantMessage)
\* prev => prev.slice(0, -1)
rollback(prev) == SubSeq(prev, 1, Len(prev) - 1)

finallyLoading_Missing == TRUE
\* finally { setLoading(false) }
finallyLoading == FALSE

sendCatchRethrows_Throws == TRUE
\* the catch of sendMessage logs and does not rethrow
sendCatchRethrows == FALSE
deleteCatchRethrows_Swallows == FALSE
\* the catch of deleteSession rethrows
deleteCatchRethrows == TRUE
Outcome(rethrows) == IF rethrows THEN "rejected" ELSE "resolved"

Event(op, status, rejected, outcome, reply, sid) ==
  [op |-> op, status |-> status, rejected |-> rejected, outcome |-> outcome,
   reply |-> reply, sid |-> sid]
Ev(op) == Event(op, "none", FALSE, "none", "none", 0)

\* isGenerating as the Chat page reads it from useChat(): the context value
\* has no such key, so the page gets undefined and the Stop button, rendered
\* only under isGenerating, is never shown
isGenerating == FALSE

\* no chat request in flight
NoReq ==
  [kind |-> "none", message |-> "none", chatType |-> "null", sessionId |-> Undefined,
   userMessage |-> Message("none", "none", 0), auth |-> << >>, tok |-> NoItem]
\* the ChatRequest of sendMessage with what its closure holds
SendRequest(message, t, userMessage) ==
  [kind |-> "send", message |-> message, chatType |-> t,
   sessionId |-> requestSessionId(currentSession), userMessage |-> userMessage,
   auth |-> requestInterceptor(localStorage.token), tok |-> localStorage.token]

Mark(tag) == intervened' = IF sendReq # NoReq THEN intervened \cup {tag} ELSE intervened

Init ==
  /\ generalMessages = << >>
  /\ ragMessages = << >>
  /\ sessions = << >>
  /\ currentSession = NullSession
  /\ loading = FALSE
  /\ chatType = "general"
  /\ showDeleteModal = FALSE
  /\ sessionToDelete = NullSession
  /\ \E tok \in Tokens : localStorage = [token |-> tok, user |-> "u"]
  /\ location = "/chat"
  /\ page = "chat"
  /\ now = 0
  /\ sendReq = NoReq
  \* the two mount effects of the Chat page have each called loadSessions
  /\ pending = [r \in {GetSessionsReq} |-> 2]
  /\ lastEvent = Ev("ui")
  /\ intervened = {}
  /\ convSid = 0
  /\ switchedTo = "none"

\* sessions.filter(session => session.chat_type === chatType) of the sidebar
filteredSessions ==
  {sessions[i] : i \in {j \in 1..Len(sessions) : sessions[j].chat_type = chatType}}

\* prev.filter(session => session.id !== sessionId)
RECURSIVE filterOut(_, _)
filterOut(list, sessionId) ==
  IF list = << >> THEN << >>
  ELSE IF Head(list).id # sessionId
         THEN <<Head(list)>> \o filterOut(Tail(list), sessionId)
         ELSE filterOut(Tail(list), sessionId)

\* ---------------------------------------------------------------- actions
\* handleSubmit -> sendMessage up to its await
HandleSubmit(m) ==
  /\ page = "chat"
  /\ switchedTo' = "none"
  /\ ~loading
  /\ now < MaxClock
  /\ LET userMessage == Message("user", m, now + 1) IN
       /\ SetMessagesFor(chatType, optimisticAppend(ListFor(chatType), userMessage))
       /\ sendReq' = SendRequest(m, chatType, userMessage)
  /\ loading' = TRUE
  /\ now' = now + 1
  /\ intervened' = {}
  /\ lastEvent' = Ev("send")
  /\ UNCHANGED <<sessions, currentSession, pageState, browser, pending, convSid>>

\* sendMessage after its await, the request fulfilled
SendSuccess(reply, sid) ==
  /\ page = "chat"
  /\ UNCHANGED switchedTo
  /\ sendReq # NoReq
  /\ sid # 0 => Room(1)
  /\ LET t == sendReq.chatType
         assistantMessage == Message("assistant", reply, now) IN
       /\ SetMessagesFor(t, appendAssistant(ListFor(t), assistantMessage))
       /\ currentSession' = IF sid # 0 THEN Session(sid, t) ELSE currentSession
  /\ pending' = IF sid # 0 THEN Issue(pending, GetSessionsReq) ELSE pending
  /\ loading' = finallyLoading
  /\ sendReq' = NoReq
  /\ convSid' = IF sid # 0 THEN sid ELSE convSid
  /\ intervened' = {}
  /\ lastEvent' = Event("sendSuccess", "200", FALSE, "resolved", reply, sid)
  /\ UNCHANGED <<sessions, pageState, browser, now>>

\* sendMessage after its await, the request rejected
SendFail(status) ==
  /\ page = "chat"
  /\ UNCHANGED switchedTo
  /\ sendReq # NoReq
  /\ LET r == responseErrorInterceptor(status, localStorage, location)
         t == sendReq.chatType IN
       /\ r.rejected
       /\ localStorage' = r.ls
       /\ location' = r.loc
       /\ SetMessagesFor(t, rollback(ListFor(t)))
       /\ lastEvent' = Event("sendFail", r.error, r.rejected,
                             Outcome(sendCatchRethrows), "none", 0)
  /\ loading' = finallyLoading
  /\ sendReq' = NoReq
  /\ intervened' = {}
  /\ UNCHANGED <<sessions, currentSession, pageState, page, now, pending, convSid>>

\* handleClearChat -> clearMessagesForChatType
HandleClearChat ==
  /\ page = "chat"
  /\ switchedTo' = "none"
  /\ IF chatType = "general"
       THEN generalMessages' = << >> /\ UNCHANGED ragMessages
       ELSE ragMessages' = << >> /\ UNCHANGED generalMessages
  /\ Mark("listed")
  /\ lastEvent' = Ev("ui")
  /\ UNCHANGED <<sessions, currentSession, loading, pageState, browser,
                 now, sendReq, pending, convSid>>

\* createNewSession
CreateNewSession ==
  /\ currentSession' = NullSession
  /\ generalMessages' = << >>
  /\ ragMessages' = << >>

\* handleChatTypeChange, with the effect on [chatType] it triggers
HandleChatTypeChange(t) ==
  /\ page = "chat"
  /\ switchedTo' = t
  /\ Room(IF t # chatType THEN 2 ELSE 1)
  /\ chatType' = t
  /\ CreateNewSession
  /\ pending' = IF t # chatType
                  THEN Issue(Issue(pending, GetSessionsReq), GetSessionsReq)
                  ELSE Issue(pending, GetSessionsReq)
  /\ Mark("listed")
  /\ convSid' = 0
  /\ lastEvent' = Ev("ui")
  /\ UNCHANGED <<sessions, loading, showDeleteModal, sessionToDelete, browser, now, sendReq>>

\* handleNewSession
HandleNewSession ==
  /\ page = "chat"
  /\ switchedTo' = "none"
  /\ Room(1)
  /\ CreateNewSession
  /\ pending' = Issue(pending, GetSessionsReq)
  /\ Mark("listed")
  /\ convSid' = 0
  /\ lastEvent' = Ev("ui")
  /\ UNCHANGED <<sessions, loading, pageState, browser, now, sendReq>>

\* handleSessionSelect -> selectSession up to the await of loadSessionMessages
HandleSessionSelect(session) ==
  /\ page = "chat"
  /\ switchedTo' = "none"
  /\ session \in filteredSessions
  /\ Room(1)
  /\ chatType' = session.chat_type
  /\ currentSession' = session
  /\ pending' = Issue(pending, GetSessionMessagesReq(session.id, session.chat_type))
  /\ Mark("listed")
  /\ convSid' = 0
  /\ lastEvent' = Ev("ui")
  /\ UNCHANGED <<generalMessages, ragMessages, sessions, loading,
                 showDeleteModal, sessionToDelete, browser, now, sendReq>>

\* loadSessions after its await, fulfilled
SessionsSuccess(list) ==
  /\ page = "chat"
  /\ UNCHANGED switchedTo
  /\ \E r \in BagToSet(pending) :
       /\ r.kind = "getSessions"
       /\ pending' = Take(pending, r)
  /\ sessions' = list
  /\ lastEvent' = Event("sessionsSuccess", "200", FALSE, "resolved", "none", 0)
  /\ UNCHANGED <<generalMessages, ragMessages, currentSession, loading,
                 pageState, browser, now, sendReq, intervened, convSid>>

\* loadSessions after its await, rejected: the catch only logs
SessionsFail(status) ==
  /\ page = "chat"
  /\ UNCHANGED switchedTo
  /\ \E r \in BagToSet(pending) :
       /\ r.kind = "getSessions"
       /\ pending' = Take(pending, r)
  /\ LET e == responseErrorInterceptor(status, localStorage, location) IN
       /\ e.rejected
       /\ localStorage' = e.ls
       /\ location' = e.loc
       /\ lastEvent' = Event("sessionsFail", e.error, e.rejected, "resolved", "none", 0)
  /\ UNCHANGED <<provider, pageState, page, now, sendReq, intervened, convSid>>

\* loadSessionMessages after its await, fulfilled
LoadMessagesSuccess(msgs) ==
  /\ page = "chat"
  /\ UNCHANGED switchedTo
  /\ \E r \in BagToSet(pending) :
       /\ r.kind = "getSessionMessages"
       /\ pending' = Take(pending, r)
       /\ generalMessages' = IF r.chatType = "general" THEN msgs ELSE << >>
       /\ ragMessages' = IF r.chatType = "general" THEN << >> ELSE msgs
  /\ Mark("listed")
  /\ lastEvent' = Event("loadSuccess", "200", FALSE, "resolved", "none", 0)
  /\ UNCHANGED <<sessions, currentSession, loading, pageState, browser, now,
                 sendReq, convSid>>

\* loadSessionMessages after its await, rejected: the catch only logs
LoadMessagesFail(status) ==
  /\ page = "chat"
  /\ UNCHANGED switchedTo
  /\ \E r \in BagToSet(pending) :
       /\ r.kind = "getSessionMessages"
       /\ pending' = Take(pending, r)
  /\ LET e == responseErrorInterceptor(status, localStorage, location) IN
       /\ e.rejected
       /\ localStorage' = e.ls
       /\ location' = e.loc
       /\ lastEvent' = Event("loadFail", e.error, e.rejected, "resolved", "none", 0)
  /\ UNCHANGED <<provider, pageState, page, now, sendReq, intervened, convSid>>

\* handleDeleteSession
HandleDeleteSession(session) ==
  /\ page = "chat"
  /\ switchedTo' = "none"
  /\ session \in filteredSessions
  /\ sessionToDelete' = session
  /\ showDeleteModal' = TRUE
  /\ lastEvent' = Ev("ui")
  /\ UNCHANGED <<provider, chatType, browser, now, sendReq, pending, intervened, convSid>>

\* handleCancelDelete
HandleCancelDelete ==
  /\ page = "chat"
  /\ switchedTo' = "none"
  /\ showDeleteModal
  /\ showDeleteModal' = FALSE
  /\ sessionToDelete' = NullSession
  /\ lastEvent' = Ev("ui")
  /\ UNCHANGED <<provider, chatType, browser, now, sendReq, pending, intervened, convSid>>

\* currentSession && currentSession.id === sessionId, over the currentSession
\* and the sessionId that the deleteSession call closed over
deletedIsCurrent(cs, sessionId) == cs # NullSession /\ cs.id = sessionId

\* handleConfirmDelete -> deleteSession up to its await
HandleConfirmDelete ==
  /\ page = "chat"
  /\ switchedTo' = "none"
  /\ showDeleteModal
  /\ sessionToDelete # NullSession
  /\ Room(1)
  /\ pending' = Issue(pending, DeleteSessionReq(sessionToDelete.id,
                                   deletedIsCurrent(currentSession, sessionToDelete.id)))
  /\ lastEvent' = Ev("ui")
  /\ UNCHANGED <<provider, pageState, browser, now, sendReq, intervened, convSid>>

\* deleteSession after its await, fulfilled, and the rest of handleConfirmDelete
DeleteSuccess ==
  /\ page = "chat"
  /\ UNCHANGED switchedTo
  /\ \E r \in BagToSet(pending) :
       /\ r.kind = "deleteSession"
       /\ pending' = Take(pending, r)
       /\ sessions' = filterOut(sessions, r.sid)
       /\ IF r.cur
            THEN /\ CreateNewSession
                 /\ Mark("delete")
            ELSE UNCHANGED <<currentSession, generalMessages, ragMessages,
                             intervened>>
       /\ convSid' = IF r.sid = convSid THEN 0 ELSE convSid
  /\ showDeleteModal' = FALSE
  /\ sessionToDelete' = NullSession
  /\ lastEvent' = Event("deleteSuccess", "200", FALSE, "resolved", "none", 0)
  /\ UNCHANGED <<loading, chatType, browser, now, sendReq>>

\* deleteSession after its await, rejected, and the catch of handleConfirmDelete
DeleteFail(status) ==
  /\ page = "chat"
  /\ UNCHANGED switchedTo
  /\ \E r \in BagToSet(pending) :
       /\ r.kind = "deleteSession"
       /\ pending' = Take(pending, r)
  /\ LET e == responseErrorInterceptor(status, localStorage, location) IN
       /\ e.rejected
       /\ localStorage' = e.ls
       /\ location' = e.loc
       /\ lastEvent' = Event("deleteFail", e.error, e.rejected,
                             Outcome(deleteCatchRethrows), "none", 0)
  /\ showDeleteModal' = FALSE
  /\ sessionToDelete' = NullSession
  /\ UNCHANGED <<provider, chatType, page, now, sendReq, intervened, convSid>>

\* the navigation started by window.location.href = '/login' unloads the
\* document: the React state and the requests in flight are gone
PageUnload ==
  /\ page = "chat"
  /\ switchedTo' = "none"
  /\ location = "/login"
  /\ page' = "login"
  /\ generalMessages' = << >>
  /\ ragMessages' = << >>
  /\ sessions' = << >>
  /\ currentSession' = NullSession
  /\ loading' = FALSE
  /\ chatType' = "general"
  /\ showDeleteModal' = FALSE
  /\ sessionToDelete' = NullSession
  /\ sendReq' = NoReq
  /\ pending' = EmptyBag
  /\ intervened' = {}
  /\ convSid' = 0
  /\ lastEvent' = Ev("unload")
  /\ UNCHANGED <<localStorage, location, now>>

Next ==
  \/ \E m \in Contents : HandleSubmit(m)
  \/ \E reply \in Replies, sid \in ResponseSessionIds : SendSuccess(reply, sid)
  \/ \E status \in Statuses : SendFail(status)
  \/ HandleClearChat
  \/ \E t \in ChatTypes : HandleChatTypeChange(t)
  \/ HandleNewSession
  \/ \E session \in {S1, S2} : HandleSessionSelect(session)
  \/ \E list \in SessionLists : SessionsSuccess(list)
  \/ \E status \in Statuses : SessionsFail(status)
  \/ \E msgs \in ServerMessages : LoadMessagesSuccess(msgs)
  \/ \E status \in Statuses : LoadMessagesFail(status)
  \/ \E session \in {S1, S2} : HandleDeleteSession(session)
  \/ HandleCancelDelete
  \/ HandleConfirmDelete
  \/ DeleteSuccess
  \/ \E status \in Statuses : DeleteFail(status)
  \/ PageUnload

Spec == Init /\ [][Next]_vars

TypeOK ==
  /\ loading \in BOOLEAN
  /\ chatType \in ChatTypes
  /\ now \in 0..MaxClock
  /\ BagCardinality(pending) <= MaxPending

\* ------------------------------------------------------------ properties
Last(list) == list[Len(list)]
RemoveMessage(list, m) == SelectSeq(list, LAMBDA x : x # m)
FailOps == {"sendFail", "sessionsFail", "loadFail", "deleteFail"}
SendIssued == sendReq = NoReq /\ sendReq' # NoReq

\* C1 as stated: while the chat request of sendMessage(m, t) is in flight and
\* no Clear Chat, new-session or select-session handler has run since it was
\* issued, the last element of the list of t is the user message m.
C1_LastIsUserMessageUnlessListed ==
  (sendReq # NoReq /\ "listed" \notin intervened) =>
    LET list == getMessagesForChatType(sendReq.chatType) IN
      Len(list) > 0 /\ Last(list) = sendReq.userMessage

\* C1 amended: while the chat request of sendMessage(m, t) is in flight and
\* no Clear Chat, new-session, select-session handler and no delete that
\* clears the lists has run since it was issued, the last element of the list
\* of t is the user message m.
C1_OptimisticAppend ==
  (sendReq # NoReq /\ intervened = {}) =>
    LET list == getMessagesForChatType(sendReq.chatType) IN
      Len(list) > 0 /\ Last(list) = sendReq.userMessage

C1_Witness ==
  /\ sendReq # NoReq
  /\ intervened = {}
  /\ Len(getMessagesForChatType(sendReq.chatType)) >= 3

\* C2: when the chat request of sendMessage(m, t) is rejected, the list of t
\* afterwards is the list before with exactly the user message m of this
\* send removed, whatever ran while the request was in flight.
C2_RollbackRemovesOwnMessage ==
  [][(sendReq # NoReq /\ lastEvent'.op = "sendFail") =>
       \A t \in ChatTypes :
         t = sendReq.chatType =>
           getMessagesForChatType(t)' =
             RemoveMessage(getMessagesForChatType(t), sendReq.userMessage)]_vars

\* C3: loading is true exactly in the states in which a chat request is in
\* flight: it is true while the request is pending and false again in the
\* state its settling (success or failure) produces.
C3_LoadingIffInFlight == loading = (sendReq # NoReq)

C3_Witness ==
  /\ lastEvent.op = "sendFail"
  /\ ~loading
  /\ sendReq = NoReq
  /\ page = "chat"

\* C4: a response error with status 401 removes 'token' and 'user' from
\* localStorage and sets the location to '/login'; an error with another
\* status or without response leaves both alone; the error is rejected to
\* the caller in every case.
C4_RedirectOn401 ==
  [][lastEvent'.op \in FailOps =>
       /\ lastEvent'.rejected
       /\ IF lastEvent'.status = "401"
            THEN /\ localStorage' = [token |-> NoItem, user |-> NoItem]
                 /\ location' = "/login"
            ELSE /\ localStorage' = localStorage
                 /\ location' = location]_vars

C4_Witness ==
  /\ lastEvent.op \in FailOps
  /\ lastEvent.status = "401"
  /\ lastEvent.rejected
  /\ localStorage = [token |-> NoItem, user |-> NoItem]
  /\ location = "/login"

\* C5: every request in flight carries Authorization = Bearer <token> for the
\* token stored when it was issued, and no Authorization header when no
\* token was stored then.
Authenticated(r) == r.auth = IF r.tok # NoItem THEN Bearer(r.tok) ELSE << >>
C5_BearerTokenAtIssue ==
  /\ \A r \in BagToSet(pending) : Authenticated(r)
  /\ sendReq # NoReq => Authenticated(sendReq)

C5_Witness ==
  /\ \E r \in BagToSet(pending) : r.tok = NoItem /\ r.auth = << >>
  /\ \E r \in BagToSet(pending) : r.tok # NoItem /\ r.auth = Bearer(r.tok)

\* C6: the steps of sendMessage(m, t) (issuing the request, its success, its
\* failure) leave the list of the other chat type unchanged, and
\* getMessagesForChatType returns generalMessages for 'general' and
\* ragMessages otherwise.
C6_OtherListUnchanged ==
  [][(SendIssued \/ (sendReq # NoReq /\ lastEvent'.op \in {"sendSuccess", "sendFail"})) =>
       LET t == IF sendReq # NoReq THEN sendReq.chatType ELSE sendReq'.chatType IN
         /\ t = "general" => ragMessages' = ragMessages
         /\ t = "custom" => generalMessages' = generalMessages
         /\ getMessagesForChatType(t) = IF t = "general" THEN generalMessages ELSE ragMessages
         /\ \A u \in ChatTypes :
              u # t => getMessagesForChatType(u)' = getMessagesForChatType(u)]_vars

C6_Witness ==
  /\ lastEvent.op = "sendSuccess"
  /\ ragMessages # << >>
  /\ Last(ragMessages).role = "assistant"
  /\ Last(ragMessages).ts > 0
  /\ generalMessages # << >>

\* C7: while a chat request is in flight the page offers its cancellation:
\* isGenerating holds, so that the Stop button that invokes cancelRequest is
\* there.
C7_CancelOfferedWhileInFlight == sendReq # NoReq => isGenerating

\* C8: when the chat request of sendMessage(m, t) succeeds with response r,
\* the list of t afterwards ends with the user message m followed by an
\* assistant message with content r.response, and if r.sessionId is present
\* currentSession is the session with id r.sessionId and chat_type t.
C8_AssistantFollowsUserMessage ==
  [][(sendReq # NoReq /\ lastEvent'.op = "sendSuccess") =>
       \A t \in ChatTypes :
         t = sendReq.chatType =>
           LET list == getMessagesForChatType(t)' IN
             /\ Len(list) >= 2
             /\ Last(list).role = "assistant"
             /\ Last(list).content = lastEvent'.reply
             /\ list[Len(list) - 1] = sendReq.userMessage
             /\ lastEvent'.sid # 0 => currentSession' = Session(lastEvent'.sid, t)]_vars

\* C9: a sendMessage issued after a send succeeded with response sessionId s,
\* with no new-session, select-session or delete of s in between, carries
\* sessionId = s; one issued while currentSession is null carries none.
C9_NextSendCarriesSession ==
  [][SendIssued =>
       /\ convSid # 0 => sendReq'.sessionId = toString(convSid)
       /\ currentSession = NullSession => sendReq'.sessionId = Undefined]_vars

\* C10: a failed sendMessage resolves its promise, leaves currentSession and
\* sessions unchanged and issues no request.
C10_FailedSendIsSwallowed ==
  [][lastEvent'.op = "sendFail" =>
       /\ lastEvent'.outcome = "resolved"
       /\ currentSession' = currentSession
       /\ sessions' = sessions
       /\ pending' = pending]_vars

C10_Witness ==
  /\ lastEvent.op = "sendFail"
  /\ lastEvent.outcome = "resolved"
  /\ currentSession # NullSession
  /\ sessions # << >>
  /\ page = "chat"

\* the deleteSession request whose response this step delivers
Delivered(r) == r.kind = "deleteSession" /\ pending' = Take(pending, r)

\* C11: when deleteSession(id) succeeds, sessions afterwards is sessions
\* without the session of that id; if currentSession is the deleted session
\* when the deletion completes, currentSession becomes null and both lists
\* empty, otherwise currentSession and both lists are unchanged.
C11_DeleteClearsOnlyCurrent ==
  [][lastEvent'.op = "deleteSuccess" =>
       \A r \in BagToSet(pending) :
         Delivered(r) =>
           /\ sessions' = SelectSeq(sessions, LAMBDA x : x.id # r.sid)
           /\ IF currentSession # NullSession /\ currentSession.id = r.sid
                THEN /\ currentSession' = NullSession
                     /\ generalMessages' = << >>
                     /\ ragMessages' = << >>
                ELSE /\ currentSession' = currentSession
                     /\ generalMessages' = generalMessages
                     /\ ragMessages' = ragMessages]_vars

\* C12: when deleteSession(id) fails, sessions, currentSession and both
\* lists are unchanged and the error is rethrown; after handleConfirmDelete
\* finishes, on success or failure, the modal is closed and sessionToDelete
\* is null.
C12_FailedDeleteRethrows ==
  [][lastEvent'.op \in {"deleteSuccess", "deleteFail"} =>
       /\ showDeleteModal' = FALSE
       /\ sessionToDelete' = NullSession
       /\ lastEvent'.op = "deleteFail" =>
            /\ lastEvent'.outcome = "rejected"
            /\ sessions' = sessions
            /\ currentSession' = currentSession
            /\ generalMessages' = generalMessages
            /\ ragMessages' = ragMessages]_vars

C12_Witness ==
  /\ lastEvent.op = "deleteFail"
  /\ lastEvent.outcome = "rejected"
  /\ ~showDeleteModal
  /\ sessionToDelete = NullSession
  /\ currentSession # NullSession
  /\ \E i \in 1..Len(sessions) : sessions[i].id = currentSession.id
  /\ generalMessages # << >>

\* C13: when the load of selectSession(s) succeeds, currentSession is s, the
\* list of s.chat_type is what the server returned and the list of the other
\* chat type is empty.
C13_SelectShowsSelected ==
  [][lastEvent'.op = "loadSuccess" =>
       \A r \in BagToSet(pending) :
         (r.kind = "getSessionMessages" /\ pending' = Take(pending, r)) =>
           /\ currentSession' = Session(r.sid, r.chatType)
           /\ \A t \in ChatTypes :
                IF t = r.chatType
                  THEN getMessagesForChatType(t)' \in ServerMessages
                  ELSE getMessagesForChatType(t)' = << >>]_vars

\* C14: once handleChatTypeChange(t) has run and every request has
\* completed, no other page handler having run since, the page chat type is
\* t, currentSession is null and both lists are empty.
C14_SwitchStartsNewSession ==
  (switchedTo # "none" /\ sendReq = NoReq /\ pending = EmptyBag) =>
    /\ chatType = switchedTo
    /\ currentSession = NullSession
    /\ generalMessages = << >>
    /\ ragMessages = << >>

====
